---- MODULE Spec2Model ----
(***************************************************************************)
(* A model of the merge-planning and merge-execution engine of             *)
(* folder_suffix.py: MergePlanner.build_plan, OperationContext,            *)
(* MergeExecutor, BackupManager.create_archive and the worker              *)
(* FolderMergerApp._run_merge that drives them.                            *)
(*                                                                         *)
(* A file name is a sequence of one-character strings, a path is the       *)
(* sequence of the names below the root folder (the root is <<>>), and the *)
(* filesystem is a function from the existing paths to their nodes.        *)
(***************************************************************************)
EXTENDS Integers, Sequences, FiniteSets, TLC

VARIABLES
  fs,        \* the tree below the root folder: path -> node
  archives,  \* the backup archives in the parent of the root folder
  config,    \* the MergeConfig of the run
  order,     \* the order in which the filesystem lists a directory
  stats,     \* OperationStats
  log,       \* the lines given to the log sink
  progress,  \* the values given to the progress sink
  status,    \* the last text given to the status sink
  plan,      \* the MergePlan
  idx,       \* the position of execute in the plan / the number of calls made
  pc,        \* the position of the worker
  fs0,       \* the tree before the run
  pre,       \* the tree and the statistics before the last step
  call,      \* the last operation, its arguments and what it returned
  ui         \* the run button, the worker threads and the queued callbacks

vars == <<fs, archives, config, order, stats, log, progress, status,
          plan, idx, pc, fs0, pre, call, ui>>

(***************************************************************************)
(* Bounds of the model.                                                    *)
(***************************************************************************)
\* the largest number of entries below the root of an initial tree
MaxNodes == 5
\* the largest number of entries of an initial tree of SpecCtx
MaxCtxNodes == 4
\* the largest number of operations one behaviour of SpecCall calls
MaxCalls == 2
\* the largest number of worker threads started and not yet cleared away
MaxWorkers == 2

(***************************************************************************)
(* Characters and names.                                                   *)
(***************************************************************************)
\* the characters of the model's names, in code-point order
CharOrder ==
  <<" ", "(", ")", ".", "0", "1", "2", "3", "4", "5", "6", "7", "8", "9",
    "A", "B", "O", "_", "a", "b", "o", "t", "x", "y">>

Rank(c) == CHOOSE i \in 1..Len(CharOrder) : CharOrder[i] = c

\* str.lower() on one character
LowerChar(c) ==
  CASE c = "A" -> "a"
    [] c = "B" -> "b"
    [] c = "O" -> "o"
    [] OTHER -> c

\* str.lower()
Lower(name) == [i \in 1..Len(name) |-> LowerChar(name[i])]

\* str.endswith that compares one character too few
EndsWithShort(name, suffix) ==
  /\ Len(suffix) <= Len(name)
  /\ \A i \in 2..Len(suffix) :
       name[Len(name) - Len(suffix) + i] = suffix[i]

\* str.endswith(suffix)
EndsWith(name, suffix) ==
  /\ Len(suffix) <= Len(name)
  /\ \A i \in 1..Len(suffix) :
       name[Len(name) - Len(suffix) + i] = suffix[i]

\* name[:-n] for n > 0
DropLast(name, n) ==
  IF n >= Len(name) THEN <<>> ELSE SubSeq(name, 1, Len(name) - n)

\* the decimal digits of a positive counter, as str(counter) gives them
RECURSIVE IntToStr(_)
IntToStr(n) ==
  LET d == CharOrder[5 + (n % 10)]
  IN  IF n < 10 THEN <<d>> ELSE IntToStr(n \div 10) \o <<d>>

\* the largest index of a "." in name, 0 when there is none (str.rfind)
LastDot(name) ==
  LET dots == {i \in 1..Len(name) : name[i] = "."}
  IN  IF dots = {} THEN 0 ELSE CHOOSE i \in dots : \A j \in dots : j <= i

\* os.path.splitext on a name without separators: the extension starts at the
\* last dot, unless only dots come before it
SplitExt(name) ==
  LET d == LastDot(name)
  IN  IF d > 0 /\ \E i \in 1..(d - 1) : name[i] # "."
        THEN <<SubSeq(name, 1, d - 1), SubSeq(name, d, Len(name))>>
        ELSE <<name, <<>>>>

\* f"{base} ({counter}){ext}"
Numbered(base, counter, ext) ==
  base \o <<" ", "(">> \o IntToStr(counter) \o <<")">> \o ext

\* the order of two names by code points (a proper prefix comes first)
RECURSIVE NameLess(_, _)
NameLess(a, b) ==
  IF a = <<>> THEN b # <<>>
  ELSE IF b = <<>> THEN FALSE
  ELSE IF a[1] # b[1] THEN Rank(a[1]) < Rank(b[1])
  ELSE NameLess(Tail(a), Tail(b))

(***************************************************************************)
(* The filesystem.                                                         *)
(***************************************************************************)
DirNode == [kind |-> "dir", data |-> <<>>]
FileNode(d) == [kind |-> "file", data |-> d]

\* os.path.exists
Exists(f, p) == p \in DOMAIN f
\* os.path.isdir
IsDir(f, p) == p \in DOMAIN f /\ f[p].kind = "dir"

\* os.path.dirname, os.path.basename, os.path.join
DirName(p) == SubSeq(p, 1, Len(p) - 1)
BaseName(p) == p[Len(p)]
Join(dir, name) == Append(dir, name)

IsPrefix(p, q) == Len(p) <= Len(q) /\ SubSeq(q, 1, Len(p)) = p
\* p is a proper ancestor of q
IsAncestor(p, q) == Len(p) < Len(q) /\ IsPrefix(p, q)

\* the set of the names directly inside directory p
Entries(f, p) ==
  {BaseName(q) : q \in {r \in DOMAIN f : Len(r) = Len(p) + 1 /\ IsPrefix(p, r)}}

\* a set of names as a sequence, in the order the directory listing gives them
RECURSIVE SortNames(_, _)
SortNames(S, ord) ==
  IF S = {} THEN <<>>
  ELSE LET first == CHOOSE a \in S : \A b \in S \ {a} :
                      IF ord = "asc" THEN NameLess(a, b) ELSE NameLess(b, a)
       IN  <<first>> \o SortNames(S \ {first}, ord)

\* os.listdir: the order of the entries is the filesystem's choice
ListDir(f, p, ord) == SortNames(Entries(f, p), ord)

\* os.rename / shutil.move of src to the absent path dst: the whole subtree moves
MoveTree(f, src, dst) ==
  LET moved == {q \in DOMAIN f : IsPrefix(src, q)}
      kept  == DOMAIN f \ moved
      NewPath(q) == dst \o SubSeq(q, Len(src) + 1, Len(q))
      dom   == kept \cup {NewPath(q) : q \in moved}
  IN  [p \in dom |->
         IF p \in kept THEN f[p]
         ELSE f[CHOOSE q \in moved : NewPath(q) = p]]

\* os.remove / os.rmdir of one path
RemovePath(f, p) == [q \in DOMAIN f \ {p} |-> f[q]]

\* os.makedirs(path, exist_ok=True)
MakeDirsFs(f, p) ==
  LET new == {SubSeq(p, 1, k) : k \in 0..Len(p)} \ DOMAIN f
  IN  [q \in DOMAIN f \cup new |-> IF q \in new THEN DirNode ELSE f[q]]

(***************************************************************************)
(* OperationStats, MergeConfig and the state an operation works on.        *)
(***************************************************************************)
ZeroStats ==
  [folders_planned |-> 0, folders_merged |-> 0, folders_renamed |-> 0,
   files_moved |-> 0, items_skipped |-> 0, name_conflicts |-> 0,
   dirs_deleted |-> 0, backups_created |-> 0]

ConflictModes == {"rename", "overwrite", "skip"}

\* a counter that is taken down where it should go up
BumpDown(s, counter) == [s EXCEPT !.stats[counter] = @ - 1]

\* Bump(s, "files_moved") is s with s.stats.files_moved += 1
Bump(s, counter) == [s EXCEPT !.stats[counter] = @ + 1]

\* ctx.log(message): a log line is its kind followed by the names it mentions
LogLine(s, line) == [s EXCEPT !.log = Append(@, line)]

\* an exception leaves the operation that raised it
Raise(s) == [s EXCEPT !.err = TRUE]

\* the value an operation returned
Return(s, v) == [s EXCEPT !.ret = v]

NoPath == <<"None">>

(***************************************************************************)
(* OperationContext.                                                       *)
(***************************************************************************)
\* Sequencing: the value v, then F of it (v is computed once).
Then(v, F(_)) == CHOOSE r \in {F(x) : x \in {v}} : TRUE

RECURSIVE UniqueLoop(_, _, _, _, _, _)
UniqueLoop(f, directory, base, ext, candidate, counter) ==
  IF Exists(f, candidate)
    THEN UniqueLoop(f, directory, base, ext,
                    Join(directory, Numbered(base, counter, ext)), counter + 1)
    ELSE candidate

\* generate_unique_path without the test that the candidate is free
GenerateUniquePathUnchecked(f, directory, name) == Join(directory, name)

GenerateUniquePath(f, directory, name) ==
  LET be == SplitExt(name)
  IN  UniqueLoop(f, directory, be[1], be[2], Join(directory, name), 1)

\* resolve_conflict whose Skip branch counts the skip and returns the path
ResolveConflictSkipFallsThrough(s0, cfg, dst_dir, dst_path) == Then(s0, LAMBDA s :
  IF ~Exists(s.fs, dst_path) THEN Return(s, dst_path)
  ELSE Return(Bump(Bump(LogLine(s, <<"skip_exists", BaseName(dst_path)>>),
                        "items_skipped"), "name_conflicts"), dst_path))

\* resolve_conflict whose Overwrite branch removes the target in a dry run too
ResolveConflictAlwaysRemoves(s0, cfg, dst_dir, dst_path) == Then(s0, LAMBDA s :
  IF ~Exists(s.fs, dst_path) THEN Return(s, dst_path)
  ELSE
    LET base_name == BaseName(dst_path)
    IN  CASE cfg.conflict_mode = "skip" ->
               Return(Bump(Bump(LogLine(s, <<"skip_exists", base_name>>),
                                "items_skipped"), "name_conflicts"), NoPath)
          [] cfg.conflict_mode = "overwrite" ->
               Return(Bump(LogLine(
                        IF ~IsDir(s.fs, dst_path)
                          THEN [s EXCEPT !.fs = RemovePath(@, dst_path)]
                          ELSE s,
                        <<"overwrite", base_name>>), "name_conflicts"), dst_path)
          [] OTHER ->
               Then(GenerateUniquePath(s.fs, dst_dir, base_name), LAMBDA new_path :
                 Return(Bump(LogLine(s, <<"rename", base_name, BaseName(new_path)>>),
                             "name_conflicts"), new_path)))

ResolveConflict(s0, cfg, dst_dir, dst_path) == Then(s0, LAMBDA s :
  IF ~Exists(s.fs, dst_path) THEN Return(s, dst_path)
  ELSE
    LET base_name == BaseName(dst_path)
    IN  CASE cfg.conflict_mode = "skip" ->
               Return(Bump(Bump(LogLine(s, <<"skip_exists", base_name>>),
                                "items_skipped"), "name_conflicts"), NoPath)
          [] cfg.conflict_mode = "overwrite" ->
               \* os.remove fails on a directory; the OSError is swallowed
               Return(Bump(LogLine(
                        IF ~cfg.dry_run /\ ~IsDir(s.fs, dst_path)
                          THEN [s EXCEPT !.fs = RemovePath(@, dst_path)]
                          ELSE s,
                        <<"overwrite", base_name>>), "name_conflicts"), dst_path)
          [] cfg.conflict_mode = "rename" ->
               Then(GenerateUniquePath(s.fs, dst_dir, base_name), LAMBDA new_path :
                 Return(Bump(LogLine(s, <<"rename", base_name, BaseName(new_path)>>),
                             "name_conflicts"), new_path))
          [] OTHER -> Return(s, NoPath))

\* os.makedirs(path, exist_ok=True) raises when an ancestor of path is a file
CanMakeDirs(f, p) == \A k \in 0..Len(p) :
                       Exists(f, SubSeq(p, 1, k)) => IsDir(f, SubSeq(p, 1, k))

OsMakedirs(s, path) ==
  IF CanMakeDirs(s.fs, path) THEN [s EXCEPT !.fs = MakeDirsFs(@, path)]
  ELSE Raise(s)

Makedirs(s0, cfg, path) == Then(s0, LAMBDA s :
  IF Exists(s.fs, path) THEN s
  ELSE IF cfg.dry_run THEN LogLine(s, <<"dry_mkdir", path>>)
  ELSE OsMakedirs(s, path))

\* shutil.move(src, dst): into dst when dst is a directory; os.rename, and a copy
\* and delete where os.rename fails; the outcome is the moved tree or an exception
ShutilMove(s, src, dst) ==
  LET real_dst == IF IsDir(s.fs, dst) THEN Join(dst, BaseName(src)) ELSE dst
  IN  IF \/ ~Exists(s.fs, src)
         \/ ~IsDir(s.fs, DirName(real_dst))
         \/ IsDir(s.fs, dst) /\ Exists(s.fs, real_dst)
         \/ IsDir(s.fs, src) /\ Exists(s.fs, real_dst)
         \/ IsPrefix(src, real_dst)
        THEN Raise(s)
        ELSE [s EXCEPT !.fs =
                MoveTree(IF Exists(s.fs, real_dst) THEN RemovePath(s.fs, real_dst)
                         ELSE s.fs,
                         src, real_dst)]

\* the parent of dst is created when it is missing
WithParent(s, dst) ==
  IF ~Exists(s.fs, DirName(dst)) THEN OsMakedirs(s, DirName(dst)) ELSE s

\* move that counts a directory as a file moved
MoveCountsDirs(s0, cfg, src, dst, is_dir) == Then(s0, LAMBDA s :
  Then(IF cfg.dry_run
         THEN LogLine(s, <<IF is_dir THEN "dry_move_folder" ELSE "dry_move_file",
                           BaseName(src)>>)
         ELSE Then(WithParent(s, dst), LAMBDA sp :
                IF sp.err THEN sp ELSE ShutilMove(sp, src, dst)),
       LAMBDA s1 : IF s1.err THEN s1 ELSE Bump(s1, "files_moved")))

\* move that does not look at dry_run
MoveAlways(s0, cfg, src, dst, is_dir) == Then(s0, LAMBDA s :
  Then(Then(WithParent(s, dst), LAMBDA sp :
         IF sp.err THEN sp ELSE ShutilMove(sp, src, dst)),
       LAMBDA s1 : IF s1.err \/ is_dir THEN s1 ELSE Bump(s1, "files_moved")))

Move(s0, cfg, src, dst, is_dir) == Then(s0, LAMBDA s :
  Then(IF cfg.dry_run
         THEN LogLine(s, <<IF is_dir THEN "dry_move_folder" ELSE "dry_move_file",
                           BaseName(src)>>)
         ELSE Then(WithParent(s, dst), LAMBDA sp :
                IF sp.err THEN sp ELSE ShutilMove(sp, src, dst)),
       LAMBDA s1 : IF s1.err \/ is_dir THEN s1 ELSE Bump(s1, "files_moved")))

\* os.rename(src, dst) of a directory
OsRename(s, src, dst) ==
  IF \/ ~Exists(s.fs, src)
     \/ ~IsDir(s.fs, DirName(dst))
     \/ IsPrefix(src, dst)
     \/ Exists(s.fs, dst) /\ (~IsDir(s.fs, dst) \/ ~IsDir(s.fs, src)
                              \/ Entries(s.fs, dst) # {})
    THEN Raise(s)
    ELSE [s EXCEPT !.fs =
            MoveTree(IF Exists(s.fs, dst) THEN RemovePath(s.fs, dst) ELSE s.fs,
                     src, dst)]

RenameDir(s0, cfg, src, dst) == Then(s0, LAMBDA s :
  Then(IF cfg.dry_run
         THEN LogLine(s, <<"dry_rename", BaseName(src), BaseName(dst)>>)
         ELSE Then(WithParent(s, dst), LAMBDA sp :
                IF sp.err THEN sp ELSE OsRename(sp, src, dst)),
       LAMBDA s1 : IF s1.err THEN s1 ELSE Bump(s1, "folders_renamed")))

\* os.rmdir raises OSError unless path is an empty directory
CanRmdir(f, path) == IsDir(f, path) /\ Entries(f, path) = {}

\* rmdir that counts the directory and leaves it
RmdirKeeps(s0, cfg, path) == Then(s0, LAMBDA s :
  IF cfg.dry_run \/ CanRmdir(s.fs, path)
    THEN Return(Bump(s, "dirs_deleted"), TRUE)
    ELSE Return(s, FALSE))

Rmdir(s0, cfg, path) == Then(s0, LAMBDA s :
  IF cfg.dry_run
    THEN Return(Bump(LogLine(s, <<"dry_rmdir", BaseName(path)>>), "dirs_deleted"), TRUE)
  ELSE IF CanRmdir(s.fs, path)
    THEN Return(Bump([s EXCEPT !.fs = RemovePath(@, path)], "dirs_deleted"), TRUE)
  ELSE Return(s, FALSE))

(***************************************************************************)
(* MergePlanner.                                                           *)
(***************************************************************************)
\* the entries of a listing that are directories, in the listing's order
SelectDirs(f, top, names) ==
  SelectSeq(names, LAMBDA n : IsDir(f, Join(top, n)))

\* os.walk(top, topdown=False): the sequence of <<dirpath, dirnames>>, every
\* directory after all the directories below it
RECURSIVE Walk(_, _, _)
RECURSIVE WalkSubdirs(_, _, _, _, _)
RECURSIVE WalkTopDown(_, _, _)
RECURSIVE WalkSubdirsTopDown(_, _, _, _, _)
WalkSubdirs(f, top, dirs, i, ord) ==
  IF i > Len(dirs) THEN <<>>
  ELSE Walk(f, Join(top, dirs[i]), ord) \o WalkSubdirs(f, top, dirs, i + 1, ord)

\* os.walk with topdown=True: a directory before the directories below it
WalkSubdirsTopDown(f, top, dirs, i, ord) ==
  IF i > Len(dirs) THEN <<>>
  ELSE WalkTopDown(f, Join(top, dirs[i]), ord)
         \o WalkSubdirsTopDown(f, top, dirs, i + 1, ord)

WalkTopDown(f, top, ord) ==
  IF ~IsDir(f, top) THEN <<>>
  ELSE LET dirs == SelectDirs(f, top, ListDir(f, top, ord))
       IN  <<<<top, dirs>>>> \o WalkSubdirsTopDown(f, top, dirs, 1, ord)

Walk(f, top, ord) ==
  IF ~IsDir(f, top) THEN <<>>
  ELSE LET dirs == SelectDirs(f, top, ListDir(f, top, ord))
       IN  WalkSubdirs(f, top, dirs, 1, ord) \o <<<<top, dirs>>>>

\* the inner loop of build_plan without the test of the base
RECURSIVE PlanOfDirAnyBase(_, _, _, _, _)
PlanOfDirAnyBase(dirpath, dirnames, i, suffix, ignore_case) ==
  IF i > Len(dirnames) THEN <<>>
  ELSE
    LET name == dirnames[i]
        match_suffix == IF ignore_case THEN Lower(suffix) ELSE suffix
        check_name == IF ignore_case THEN Lower(name) ELSE name
        base == DropLast(name, Len(suffix))
        here == IF EndsWith(check_name, match_suffix)
                  THEN <<<<Join(dirpath, name), Join(dirpath, base)>>>>
                  ELSE <<>>
    IN  here \o PlanOfDirAnyBase(dirpath, dirnames, i + 1, suffix, ignore_case)

\* the inner loop of build_plan over the dirnames of one walked directory
RECURSIVE PlanOfDir(_, _, _, _, _)
PlanOfDir(dirpath, dirnames, i, suffix, ignore_case) ==
  IF i > Len(dirnames) THEN <<>>
  ELSE
    LET name == dirnames[i]
        match_suffix == IF ignore_case THEN Lower(suffix) ELSE suffix
        check_name == IF ignore_case THEN Lower(name) ELSE name
        base == DropLast(name, Len(suffix))
        here == IF EndsWith(check_name, match_suffix) /\ base # <<>>
                  THEN <<<<Join(dirpath, name), Join(dirpath, base)>>>>
                  ELSE <<>>
    IN  here \o PlanOfDir(dirpath, dirnames, i + 1, suffix, ignore_case)

RECURSIVE PlanOfWalk(_, _, _, _)
PlanOfWalk(walk, k, suffix, ignore_case) ==
  IF k > Len(walk) THEN <<>>
  ELSE PlanOfDir(walk[k][1], walk[k][2], 1, suffix, ignore_case)
         \o PlanOfWalk(walk, k + 1, suffix, ignore_case)

BuildPlan(f, root, suffix, ignore_case, ord) ==
  IF suffix = <<>> THEN <<>>
  ELSE PlanOfWalk(Walk(f, root, ord), 1, suffix, ignore_case)

(***************************************************************************)
(* MergeExecutor.                                                          *)
(***************************************************************************)
\* _handle_type_conflict that honours Overwrite: the destination item is removed
\* and the source item takes its place
HandleTypeConflictOverwrites(s0, cfg, src_item, dst_item, name, dst_parent, is_dir) ==
  Then(s0, LAMBDA s :
    IF cfg.conflict_mode = "skip"
      THEN Bump(Bump(LogLine(s, <<"skip_type", name>>), "items_skipped"),
                "name_conflicts")
    ELSE IF cfg.conflict_mode = "overwrite"
      THEN Move(Bump(LogLine(
                       IF cfg.dry_run THEN s
                       ELSE [s EXCEPT !.fs =
                               [q \in {r \in DOMAIN s.fs : ~IsPrefix(dst_item, r)}
                                  |-> s.fs[q]]],
                       <<"overwrite", name>>), "name_conflicts"),
                cfg, src_item, dst_item, is_dir)
    ELSE Then(GenerateUniquePath(s.fs, dst_parent, name), LAMBDA new_path :
           Move(Bump(LogLine(s, <<"rename_type", name, BaseName(new_path)>>),
                     "name_conflicts"),
                cfg, src_item, new_path, is_dir)))

HandleTypeConflict(s0, cfg, src_item, dst_item, name, dst_parent, is_dir) ==
  Then(s0, LAMBDA s :
    IF cfg.conflict_mode = "skip"
      THEN Bump(Bump(LogLine(s, <<"skip_type", name>>), "items_skipped"),
                "name_conflicts")
      ELSE Then(GenerateUniquePath(s.fs, dst_parent, name), LAMBDA new_path :
             Move(Bump(LogLine(s, <<"rename_type", name, BaseName(new_path)>>),
                       "name_conflicts"),
                  cfg, src_item, new_path, is_dir)))

MergeFile(s0, cfg, src_item, dst_item, name, dst_parent) == Then(s0, LAMBDA s :
  IF IsDir(s.fs, dst_item)
    THEN HandleTypeConflict(s, cfg, src_item, dst_item, name, dst_parent, FALSE)
  ELSE IF Exists(s.fs, dst_item)
    THEN Then(ResolveConflict(s, cfg, dst_parent, dst_item), LAMBDA r :
           IF r.ret # NoPath THEN Move(r, cfg, src_item, r.ret, FALSE) ELSE r)
  ELSE Move(s, cfg, src_item, dst_item, FALSE))

RECURSIVE MergeTrees(_, _, _, _, _)
RECURSIVE MergeItems(_, _, _, _, _, _, _)
RECURSIVE MergeDirectory(_, _, _, _, _, _, _)

MergeDirectory(s0, cfg, ord, src_item, dst_item, name, dst_parent) ==
  Then(s0, LAMBDA s :
    IF IsDir(s.fs, dst_item)
      THEN MergeTrees(Bump(s, "folders_merged"), cfg, ord, src_item, dst_item)
    ELSE IF Exists(s.fs, dst_item)
      THEN HandleTypeConflict(s, cfg, src_item, dst_item, name, dst_parent, TRUE)
    ELSE Move(Bump(s, "folders_merged"), cfg, src_item, dst_item, TRUE))

\* the loop of _merge_trees over the listing taken when it starts
MergeItems(s0, cfg, ord, src, dst, names, i) == Then(s0, LAMBDA s :
  IF s.err \/ i > Len(names) THEN s
  ELSE
    LET name == names[i]
        src_item == Join(src, name)
        dst_item == Join(dst, name)
    IN  MergeItems(
          IF IsDir(s.fs, src_item)
            THEN MergeDirectory(s, cfg, ord, src_item, dst_item, name, dst)
            ELSE MergeFile(s, cfg, src_item, dst_item, name, dst),
          cfg, ord, src, dst, names, i + 1))

MergeTrees(s0, cfg, ord, src, dst) ==
  Then(IF ~Exists(s0.fs, dst) THEN Makedirs(s0, cfg, dst) ELSE s0, LAMBDA s1 :
    IF s1.err THEN s1
    \* os.listdir raises unless src is a directory
    ELSE IF ~IsDir(s1.fs, src) THEN Raise(s1)
    ELSE
      Then(ListDir(s1.fs, src, ord), LAMBDA names :
      Then(MergeItems(s1, cfg, ord, src, dst, names, 1), LAMBDA s2 :
        IF s2.err THEN s2
        \* the clean-up: os.listdir raising OSError is swallowed
        ELSE IF IsDir(s2.fs, src) /\ Entries(s2.fs, src) = {}
          THEN Rmdir(s2, cfg, src)
        ELSE s2)))

\* ctx.progress(value) with value = num / den, clamped into [0, 1]
Clamp(num, den) ==
  IF num < 0 THEN <<0, 1>> ELSE IF num > den THEN <<1, 1>> ELSE <<num, den>>

Report(s, num, den) == [s EXCEPT !.progress = Append(@, Clamp(num, den))]

SetStatus(s, text) == [s EXCEPT !.status = text]

\* a total that counts one pair too many
TotalOneMore(pl) == Len(pl) + 1

\* len(plan) or 1
Total(pl) == IF Len(pl) = 0 THEN 1 ELSE Len(pl)

\* an iteration of execute that fails on a source that is gone
ExecutePairMissingRaises(s0, cfg, ord, pl, index) == Then(s0, LAMBDA s :
  LET src == pl[index][1]
      dst == pl[index][2]
  IN  IF ~Exists(s.fs, src) THEN Raise(s)
      ELSE
        Then(IF Exists(s.fs, dst)
               THEN MergeTrees(
                      Bump(LogLine(SetStatus(s, <<"processing", index, Len(pl)>>),
                                   <<"merging", BaseName(src), BaseName(dst)>>),
                           "folders_merged"),
                      cfg, ord, src, dst)
               ELSE RenameDir(
                      LogLine(SetStatus(s, <<"processing", index, Len(pl)>>),
                              <<"renaming", BaseName(src), BaseName(dst)>>),
                      cfg, src, dst),
             LAMBDA s1 : IF s1.err THEN s1 ELSE Report(s1, index, Total(pl))))

\* one iteration of the loop of execute, for the pair at position index
ExecutePair(s0, cfg, ord, pl, index) == Then(s0, LAMBDA s :
  LET src == pl[index][1]
      dst == pl[index][2]
  IN  IF ~Exists(s.fs, src)
        THEN Report(LogLine(s, <<"not_found", BaseName(src)>>), index, Total(pl))
      ELSE
        Then(IF Exists(s.fs, dst)
               THEN MergeTrees(
                      Bump(LogLine(SetStatus(s, <<"processing", index, Len(pl)>>),
                                   <<"merging", BaseName(src), BaseName(dst)>>),
                           "folders_merged"),
                      cfg, ord, src, dst)
               ELSE RenameDir(
                      LogLine(SetStatus(s, <<"processing", index, Len(pl)>>),
                              <<"renaming", BaseName(src), BaseName(dst)>>),
                      cfg, src, dst),
             LAMBDA s1 : IF s1.err THEN s1 ELSE Report(s1, index, Total(pl))))

\* execute(plan) from the pair at position index on, to its end or to the
\* first exception
RECURSIVE ExecuteFrom(_, _, _, _, _)
ExecuteFrom(s0, cfg, ord, pl, index) == Then(s0, LAMBDA s :
  IF s.err \/ index > Len(pl) THEN s
  ELSE ExecuteFrom(ExecutePair(s, cfg, ord, pl, index), cfg, ord, pl, index + 1))

\* execute that reports completion itself when it is through with the plan
ExecuteReportsCompletion(s, cfg, ord, pl) ==
  Then(ExecuteFrom(s, cfg, ord, pl, 1), LAMBDA s1 :
    IF s1.err THEN s1 ELSE Report(s1, 1, 1))

Execute(s, cfg, ord, pl) == ExecuteFrom(s, cfg, ord, pl, 1)

(***************************************************************************)
(* BackupManager.                                                          *)
(***************************************************************************)
\* the archive {name}_backup_{timestamp}.zip in the parent of root
ArchiveOf(root, timestamp) == <<"backup_zip", root, timestamp>>

\* create_archive that writes the archive in a dry run as well
CreateArchiveIgnoresDryRun(s0, cfg, root, timestamp, written) == Then(s0, LAMBDA s :
  IF ~IsDir(s.fs, root) THEN Return(s, NoPath)
  ELSE
    Then(SetStatus(LogLine(s, <<"creating_backup", timestamp>>), <<"backup">>),
         LAMBDA s1 :
      IF written
        THEN Return(Bump(LogLine([s1 EXCEPT !.archives =
                                    @ \cup {ArchiveOf(root, timestamp)}],
                                 <<"backup_created", timestamp>>),
                         "backups_created"),
                    ArchiveOf(root, timestamp))
      ELSE Return(LogLine(s1, <<"backup_failed">>), NoPath)))

\* create_archive that counts the backup before make_archive is tried
CreateArchiveCountsAttempt(s0, cfg, root, timestamp, written) == Then(s0, LAMBDA s :
  IF ~IsDir(s.fs, root) THEN Return(s, NoPath)
  ELSE
    Then(SetStatus(LogLine(s, <<"creating_backup", timestamp>>), <<"backup">>),
         LAMBDA s1 :
      IF cfg.dry_run
        THEN Return(LogLine(s1, <<"dry_backup">>), ArchiveOf(root, timestamp))
      ELSE IF written
        THEN Return(Bump(LogLine([s1 EXCEPT !.archives =
                                    @ \cup {ArchiveOf(root, timestamp)}],
                                 <<"backup_created", timestamp>>),
                         "backups_created"),
                    ArchiveOf(root, timestamp))
      ELSE Return(Bump(LogLine(s1, <<"backup_failed">>), "backups_created"),
                  NoPath)))

\* make_archive either writes the archive or raises
CreateArchive(s0, cfg, root, timestamp, written) == Then(s0, LAMBDA s :
  IF ~IsDir(s.fs, root) THEN Return(s, NoPath)
  ELSE
    Then(SetStatus(LogLine(s, <<"creating_backup", timestamp>>), <<"backup">>),
         LAMBDA s1 :
      IF cfg.dry_run
        THEN Return(LogLine(s1, <<"dry_backup">>), ArchiveOf(root, timestamp))
      ELSE IF written
        THEN Return(Bump(LogLine([s1 EXCEPT !.archives =
                                    @ \cup {ArchiveOf(root, timestamp)}],
                                 <<"backup_created", timestamp>>),
                         "backups_created"),
                    ArchiveOf(root, timestamp))
      ELSE Return(LogLine(s1, <<"backup_failed">>), NoPath)))

(***************************************************************************)
(* The trees a run starts from.                                            *)
(***************************************************************************)
nA   == <<"A">>
nAo  == <<"A", "_", "o">>
nAO  == <<"A", "_", "O">>
nAoo == <<"A", "_", "o", "_", "o">>
nSfx == <<"_", "o">>
nX   == <<"x">>
nX1  == <<"x", " ", "(", "1", ")">>
nX2  == <<"x", " ", "(", "2", ")">>
nXt  == <<"x", ".", "t">>
nY   == <<"y">>

\* the entries an initial tree is made of: <<path, kind>>
Slots ==
  { <<<<nA>>, "dir">>, <<<<nA>>, "file">>, <<<<nAo>>, "dir">>, <<<<nAO>>, "dir">>,
    <<<<nAoo>>, "dir">>, <<<<nSfx>>, "dir">>,
    <<<<nAo, nX>>, "file">>, <<<<nAo, nX>>, "dir">>, <<<<nAo, nX1>>, "file">>,
    <<<<nAo, nAo>>, "dir">>, <<<<nAo, nA>>, "dir">>, <<<<nAo, nXt>>, "file">>,
    <<<<nA, nX>>, "file">>, <<<<nA, nX>>, "dir">>, <<<<nA, nX1>>, "file">>,
    <<<<nA, nX2>>, "file">>, <<<<nA, nXt>>, "file">>,
    <<<<nAoo, nX>>, "file">>, <<<<nAO, nX>>, "file">>, <<<<nSfx, nAo>>, "dir">>,
    <<<<nAo, nX, nY>>, "file">>, <<<<nA, nX, nY>>, "file">>,
    <<<<nA, nX, nAo>>, "dir">> }

\* entry e can be added to the set t of entries: its path is free and its
\* parent is the root or a directory of t
CanAdd(t, e) ==
  /\ \A d \in t : d[1] # e[1]
  /\ \/ Len(e[1]) = 1
     \/ <<DirName(e[1]), "dir">> \in t

\* the sets of at most n entries that form a tree
RECURSIVE TreesUpTo(_)
TreesUpTo(n) ==
  IF n = 0 THEN {{}}
  ELSE LET smaller == TreesUpTo(n - 1)
       IN  smaller \cup {t \cup {e} : <<t, e>> \in
                           {te \in smaller \X Slots : CanAdd(te[1], te[2])}}

\* the filesystem of a set of entries; a file holds its own first path, so
\* that every file's content is distinct
FsOf(t) ==
  [p \in {<<>>} \cup {e[1] : e \in t} |->
     IF p = <<>> \/ <<p, "dir">> \in t THEN DirNode ELSE FileNode(p)]

\* the directories below the root of tree f
DirsBelow(f) == {p \in DOMAIN f : p # <<>> /\ f[p].kind = "dir"}

InitialTrees == {FsOf(t) : t \in TreesUpTo(MaxNodes)}

Root == <<>>

\* the suffix the runs of Spec are configured with
RunSuffixes == {nSfx}
\* the suffixes build_plan is tried with in SpecPlan
PlanSuffixes == {nSfx, <<"_", "O">>, <<"o">>}

TimeStamps == {"t1"}

(***************************************************************************)
(* The worker: FolderMergerApp._run_merge.                                 *)
(***************************************************************************)
\* the state the operations of one step work on
Ctx ==
  [fs |-> fs, archives |-> archives, stats |-> stats, log |-> log,
   progress |-> progress, status |-> status, err |-> FALSE, ret |-> NoPath]

\* the step leaves the filesystem, the sinks and the statistics as in s
Becomes(s) ==
  /\ fs' = s.fs
  /\ archives' = s.archives
  /\ stats' = s.stats
  /\ log' = s.log
  /\ progress' = s.progress
  /\ status' = s.status
  /\ pre' = [fs |-> fs, stats |-> stats, archives |-> archives]

ConfigsOf(suffixes, cases, drys, backups, modes) ==
  [root_path : {Root}, suffix : suffixes, ignore_case : cases, dry_run : drys,
   create_backup : backups, conflict_mode : modes]

\* the window after construction: the run button enabled, no worker thread, no
\* callback queued
IdleUI == [button |-> "normal", workers |-> <<>>, after |-> 0]

InitWith(trees, configs, orders) ==
  /\ fs \in trees
  /\ fs0 = fs
  /\ archives = {}
  /\ config \in configs
  /\ order \in orders
  /\ stats = ZeroStats
  /\ log = <<>>
  /\ progress = <<>>
  /\ status = <<>>
  /\ plan = <<>>
  /\ idx = 0
  /\ pc = "start"
  /\ pre = [fs |-> fs, stats |-> ZeroStats, archives |-> {}]
  /\ call = [op |-> "none", args |-> <<>>, ret |-> NoPath]
  /\ ui = IdleUI

Init ==
  InitWith(InitialTrees,
           ConfigsOf(RunSuffixes, BOOLEAN, BOOLEAN, BOOLEAN, ConflictModes),
           {"asc", "desc"})

\* _run_merge up to the plan: the banner, build_plan, folders_planned, and the
\* early return on an empty plan
RunPlan ==
  /\ pc = "start"
  /\ \E pl \in {BuildPlan(fs, config.root_path, config.suffix,
                          config.ignore_case, order)} :
       LET s1 == SetStatus(LogLine(Ctx, <<"banner">>), <<"building">>)
           s2 == [s1 EXCEPT !.stats.folders_planned = Len(pl)]
           s3 == IF pl = <<>>
                   THEN Report(SetStatus(LogLine(s2, <<"none_found">>), <<"nothing">>),
                               1, 1)
                   ELSE LogLine(s2, <<"found", Len(pl)>>)
       IN  /\ plan' = pl
           /\ Becomes(s3)
           /\ pc' = IF pl = <<>> THEN "done" ELSE "backup"
  /\ call' = [op |-> "build_plan", args |-> <<config.root_path>>, ret |-> NoPath]
  /\ UNCHANGED <<config, order, idx, fs0, ui>>

\* _run_merge: the optional backup before execute
RunBackup ==
  /\ pc = "backup"
  /\ \E timestamp \in TimeStamps, written \in BOOLEAN :
       \E s1 \in {IF config.create_backup
                     THEN CreateArchive(Ctx, config, config.root_path, timestamp, written)
                     ELSE Ctx} :
           /\ Becomes(SetStatus(s1, <<"merging">>))
           /\ call' = [op |-> "create_archive",
                       args |-> <<config.root_path, timestamp>>, ret |-> s1.ret]
  /\ pc' = "exec"
  /\ idx' = 1
  /\ UNCHANGED <<config, order, plan, fs0, ui>>

\* one iteration of the loop of execute; an exception ends the run in the
\* handler of _run_merge
RunExecutePair ==
  /\ pc = "exec"
  /\ idx <= Len(plan)
  /\ \E s1 \in {ExecutePair(Ctx, config, order, plan, idx)} :
         IF s1.err
           THEN /\ Becomes(SetStatus(LogLine(s1, <<"error">>), <<"error">>))
                /\ pc' = "error"
                /\ idx' = idx
           ELSE /\ Becomes(s1)
                /\ pc' = "exec"
                /\ idx' = idx + 1
  /\ call' = [op |-> "execute_pair", args |-> plan[idx], ret |-> NoPath]
  /\ UNCHANGED <<config, order, plan, fs0, ui>>

\* _run_merge after execute returned: completion and the summary
RunComplete ==
  /\ pc = "exec"
  /\ idx > Len(plan)
  /\ Becomes(LogLine(Report(SetStatus(Ctx, <<"complete">>), 1, 1), <<"summary">>))
  /\ pc' = "done"
  /\ call' = [op |-> "complete", args |-> <<>>, ret |-> NoPath]
  /\ UNCHANGED <<config, order, plan, idx, fs0, ui>>

Next == RunPlan \/ RunBackup \/ RunExecutePair \/ RunComplete

Spec == Init /\ [][Next]_vars

(***************************************************************************)
(* build_plan on its own: every tree, suffix, case rule and listing order. *)
(***************************************************************************)
InitPlan ==
  InitWith(InitialTrees,
           ConfigsOf(PlanSuffixes, BOOLEAN, {TRUE}, {FALSE}, {"rename"}),
           {"asc", "desc"})

NextPlan == RunPlan

SpecPlan == InitPlan /\ [][NextPlan]_vars

(***************************************************************************)
(* The operations of OperationContext and MergeExecutor called one by one, *)
(* each with the arguments its call sites give it.                         *)
(***************************************************************************)
InitCall ==
  InitWith(InitialTrees,
           ConfigsOf(RunSuffixes, {FALSE}, BOOLEAN, {FALSE}, ConflictModes),
           {"asc"})

\* the names generate_unique_path is asked for
CallNames == {nX, nXt}

Called(op, args, ret) ==
  /\ call' = [op |-> op, args |-> args, ret |-> ret]
  /\ idx' = idx + 1
  /\ UNCHANGED <<config, order, plan, pc, fs0, ui>>

CallGenerateUniquePath ==
  /\ idx < MaxCalls
  /\ \E directory \in {Root} \cup DirsBelow(fs), name \in CallNames :
       /\ Becomes(Ctx)
       /\ Called("generate_unique_path", <<directory, name>>,
                 GenerateUniquePath(fs, directory, name))

\* _merge_directory calls it for a directory that meets a file, _merge_file for
\* a file that meets a directory
CallHandleTypeConflict ==
  /\ idx < MaxCalls
  /\ \E src \in {Root} \cup DirsBelow(fs), dst \in {Root} \cup DirsBelow(fs) :
     \E name \in Entries(fs, src) \cap Entries(fs, dst) :
       LET src_item == Join(src, name)
           dst_item == Join(dst, name)
           is_dir == IsDir(fs, src_item)
       IN  /\ src # dst
           /\ IsDir(fs, dst_item) # is_dir
           /\ \E s1 \in {HandleTypeConflict(Ctx, config, src_item, dst_item, name,
                                            dst, is_dir)} :
                /\ ~s1.err
                /\ Becomes(s1)
           /\ Called("handle_type_conflict", <<src_item, dst_item, is_dir>>, NoPath)

NextCall == CallGenerateUniquePath \/ CallHandleTypeConflict

SpecCall == InitCall /\ [][NextCall]_vars

(***************************************************************************)
(* The file operations of OperationContext called one by one.              *)
(***************************************************************************)
Raised == <<"raised">>

\* what a call hands back: the value returned, or the exception
Outcome(s) == IF s.err THEN Raised ELSE s.ret

AllDirs(f) == {<<>>} \cup DirsBelow(f)

\* _merge_file calls it with the path of name in the destination directory,
\* after it has sent directories to _handle_type_conflict
CallResolveConflict ==
  /\ idx < MaxCalls
  /\ \E dst_dir \in AllDirs(fs) :
     \E name \in CallNames \cup Entries(fs, dst_dir) :
       /\ ~IsDir(fs, Join(dst_dir, name))
       /\ \E s1 \in {ResolveConflict(Ctx, config, dst_dir, Join(dst_dir, name))} :
            /\ Becomes(s1)
            /\ Called("resolve_conflict", <<dst_dir, Join(dst_dir, name)>>, Outcome(s1))

CallRmdir ==
  /\ idx < MaxCalls
  /\ \E path \in (DOMAIN fs \ {<<>>}) \cup {<<nY>>} :
       \E s1 \in {Rmdir(Ctx, config, path)} :
         /\ Becomes(s1)
         /\ Called("rmdir", <<path>>, Outcome(s1))

NextCtx == CallResolveConflict \/ CallRmdir

InitCtx ==
  InitWith({FsOf(t) : t \in TreesUpTo(MaxCtxNodes)},
           ConfigsOf(RunSuffixes, {FALSE}, BOOLEAN, {FALSE}, ConflictModes),
           {"asc"})

SpecCtx == InitCtx /\ [][NextCtx]_vars

(***************************************************************************)
(* A run beside another process: nothing locks the tree between build_plan *)
(* and execute, and a planned source may be gone when its pair is reached. *)
(***************************************************************************)
InitRace ==
  InitWith(InitialTrees,
           ConfigsOf(RunSuffixes, {FALSE}, BOOLEAN, {FALSE}, {"rename"}),
           {"asc"})

\* another process removes a planned source, and all below it, before execute
\* reaches its pair
ExternalRemove ==
  /\ pc \in {"backup", "exec"}
  /\ \E i \in 1..Len(plan) :
       /\ pc = "exec" => i >= idx
       /\ Exists(fs, plan[i][1])
       /\ Becomes([Ctx EXCEPT !.fs = [q \in {r \in DOMAIN fs : ~IsPrefix(plan[i][1], r)}
                                        |-> fs[q]]])
       /\ call' = [op |-> "external_remove", args |-> plan[i], ret |-> NoPath]
  /\ UNCHANGED <<config, order, plan, idx, pc, fs0, ui>>

NextRace == Next \/ ExternalRemove

SpecRace == InitRace /\ [][NextRace]_vars

(***************************************************************************)
(* execute and create_archive called on their own, beside the start of a   *)
(* run.                                                                    *)
(***************************************************************************)
InitExec ==
  InitWith(InitialTrees,
           ConfigsOf(RunSuffixes, {FALSE}, BOOLEAN, {FALSE}, ConflictModes),
           {"asc"})

\* MergeExecutor(ctx).execute(plan) for the empty plan and for the plan of the
\* tree
CallExecute ==
  /\ pc = "start"
  /\ \E pl \in {<<>>, BuildPlan(fs, config.root_path, config.suffix,
                                config.ignore_case, order)} :
       \E s1 \in {Execute(Ctx, config, order, pl)} :
         /\ Becomes(s1)
         /\ call' = [op |-> "execute", args |-> pl, ret |-> Outcome(s1)]
         /\ plan' = pl
  /\ pc' = "called"
  /\ UNCHANGED <<config, order, idx, fs0, ui>>

\* BackupManager.create_archive(root, ctx) for a directory, a file and a path
\* that does not exist
CallCreateArchive ==
  /\ pc = "start"
  /\ \E root \in DOMAIN fs \cup {<<nY>>}, timestamp \in TimeStamps,
        written \in BOOLEAN :
       \E s1 \in {CreateArchive(Ctx, config, root, timestamp, written)} :
         /\ Becomes(s1)
         /\ call' = [op |-> "create_archive", args |-> <<root, timestamp>>,
                     ret |-> Outcome(s1)]
  /\ pc' = "called"
  /\ UNCHANGED <<config, order, plan, idx, fs0, ui>>

NextExec == RunPlan \/ CallExecute \/ CallCreateArchive

SpecExec == InitExec /\ [][NextExec]_vars

(***************************************************************************)
(* MergeConfig and the handler of the run button.                          *)
(***************************************************************************)
ValueError == [error |-> "ValueError"]

\* no MergeConfig has been built yet
NoConfig == [none |-> TRUE]

\* the text of the root entry that names the root directory of the tree; any
\* other text names a directory that does not exist
RootText == <<"r">>
PathNamed(text) == IF text = RootText THEN <<>> ELSE <<text>>

\* a MergeConfig that is not validated
MergeConfigUnvalidated(root_path, suffix, ignore_case, dry_run, create_backup, conflict_mode) ==
  [root_path |-> PathNamed(root_path), suffix |-> suffix,
   ignore_case |-> ignore_case, dry_run |-> dry_run,
   create_backup |-> create_backup, conflict_mode |-> conflict_mode]

\* MergeConfig(...) with __post_init__: the object, or the ValueError raised
MergeConfig(root_path, suffix, ignore_case, dry_run, create_backup, conflict_mode) ==
  IF root_path = <<>> THEN ValueError
  ELSE IF suffix = <<>> THEN ValueError
  ELSE [root_path |-> PathNamed(root_path), suffix |-> suffix,
        ignore_case |-> ignore_case, dry_run |-> dry_run,
        create_backup |-> create_backup, conflict_mode |-> conflict_mode]

\* MergeConfig(root_path, suffix) with the defaults of the other fields
MergeConfigDefault(root_path, suffix) ==
  MergeConfig(root_path, suffix, FALSE, TRUE, FALSE, "rename")

\* str.strip() for texts whose only whitespace is the blank
RECURSIVE StripLeft(_)
StripLeft(t) == IF t # <<>> /\ Head(t) = " " THEN StripLeft(Tail(t)) ELSE t
RECURSIVE StripRight(_)
StripRight(t) ==
  IF t # <<>> /\ t[Len(t)] = " " THEN StripRight(SubSeq(t, 1, Len(t) - 1)) ELSE t
Strip(t) == StripRight(StripLeft(t))

\* what the entries of the window may hold
RootTexts == {<<>>, <<" ">>, RootText, <<" ", "r", " ">>, <<"g">>}
SuffixTexts == {<<>>, <<" ">>, nSfx, <<" ", "_", "o">>}

InitUI ==
  /\ fs \in {FsOf(t) : t \in TreesUpTo(MaxCtxNodes)}
  /\ fs0 = fs
  /\ archives = {}
  /\ config = NoConfig
  /\ order = "asc"
  /\ stats = ZeroStats
  /\ log = <<>>
  /\ progress = <<>>
  /\ status = <<>>
  /\ plan = <<>>
  /\ idx = 0
  /\ pc = "idle"
  /\ pre = [fs |-> fs, stats |-> ZeroStats, archives |-> {}]
  /\ call = [op |-> "none", args |-> <<>>, ret |-> NoPath]
  /\ ui = IdleUI

\* what _handle_run does with the entries: an error dialog, a declined
\* confirmation, or the MergeConfig the worker is started with
HandleRunOutcome(f, root_text, suffix_text, dry_run, conflict_mode, confirmed) ==
  LET root_path == Strip(root_text)
      suffix == Strip(suffix_text)
  IN  IF root_path = <<>> THEN <<"select_root">>
      ELSE IF ~IsDir(f, PathNamed(root_path)) THEN <<"no_such_folder">>
      ELSE IF suffix = <<>> THEN <<"enter_suffix">>
      ELSE IF MergeConfig(root_path, suffix, FALSE, dry_run, FALSE, conflict_mode)
                = ValueError
        THEN <<"value_error">>
      ELSE IF ~confirmed THEN <<"declined">>
      ELSE <<"started">>

HandleRun ==
  /\ pc = "idle"
  /\ \E root_text \in {<<>>, RootText}, suffix_text \in {<<>>, nSfx},
        dry_run \in BOOLEAN, conflict_mode \in {"rename"}, confirmed \in BOOLEAN :
       \E out \in {HandleRunOutcome(fs, root_text, suffix_text, dry_run,
                                    conflict_mode, confirmed)} :
         /\ call' = [op |-> "handle_run", args |-> <<root_text, suffix_text>>,
                     ret |-> out]
         /\ IF out = <<"started">>
              THEN /\ config' = MergeConfig(Strip(root_text), Strip(suffix_text),
                                            FALSE, dry_run, FALSE, conflict_mode)
                   /\ pc' = "start"
                   /\ Becomes(SetStatus(Ctx, <<"preparing">>))
              ELSE /\ UNCHANGED <<config, pc>>
                   /\ Becomes(Ctx)
  /\ UNCHANGED <<order, plan, idx, fs0, ui>>

\* MergeConfig(root_path, suffix) built by a caller, every other field left to
\* its default
NewMergeConfig ==
  /\ pc = "idle"
  /\ \E root_path \in RootTexts, suffix \in SuffixTexts :
       call' = [op |-> "MergeConfig", args |-> <<root_path, suffix>>,
                ret |-> MergeConfigDefault(root_path, suffix)]
  /\ Becomes(Ctx)
  /\ UNCHANGED <<config, order, plan, idx, pc, fs0, ui>>

NextUI == HandleRun \/ NewMergeConfig \/ Next

SpecUI == InitUI /\ [][NextUI]_vars

(***************************************************************************)
(* A second run on the tree the first run left.                            *)
(***************************************************************************)
\* OperationContext(config, ...) beside tree f and the archives a
NewContext(f, a) ==
  [fs |-> f, archives |-> a, stats |-> ZeroStats, log |-> <<>>,
   progress |-> <<>>, status |-> <<>>, err |-> FALSE, ret |-> NoPath]

\* _run_merge from its first line to its last
RunMerge(s0, cfg, ord, timestamp, written) ==
  Then(BuildPlan(s0.fs, cfg.root_path, cfg.suffix, cfg.ignore_case, ord), LAMBDA pl :
  Then([SetStatus(LogLine(s0, <<"banner">>), <<"building">>)
          EXCEPT !.stats.folders_planned = Len(pl)], LAMBDA s1 :
    IF pl = <<>>
      THEN Report(SetStatus(LogLine(s1, <<"none_found">>), <<"nothing">>), 1, 1)
      ELSE
        Then(IF cfg.create_backup
               THEN CreateArchive(LogLine(s1, <<"found", Len(pl)>>), cfg,
                                  cfg.root_path, timestamp, written)
               ELSE LogLine(s1, <<"found", Len(pl)>>), LAMBDA s2 :
        Then(Execute(SetStatus(s2, <<"merging">>), cfg, ord, pl), LAMBDA s3 :
          IF s3.err
            THEN SetStatus(LogLine(s3, <<"error">>), <<"error">>)
            ELSE LogLine(Report(SetStatus(s3, <<"complete">>), 1, 1),
                         <<"summary">>)))))

InitAgain ==
  InitWith(InitialTrees,
           ConfigsOf(RunSuffixes, BOOLEAN, {FALSE}, {FALSE}, ConflictModes),
           {"asc", "desc"})

\* the run button once more, after a run that completed: a new worker, a new
\* context, the same configuration
RunAgain ==
  /\ pc = "done"
  /\ \E timestamp \in TimeStamps :
       \E s1 \in {RunMerge(NewContext(fs, archives), config, order, timestamp,
                           TRUE)} :
         /\ Becomes(s1)
         /\ pc' = IF s1.err THEN "error2" ELSE "done2"
  /\ plan' = BuildPlan(fs, config.root_path, config.suffix, config.ignore_case,
                       order)
  /\ call' = [op |-> "run_merge", args |-> <<config.root_path>>, ret |-> NoPath]
  /\ UNCHANGED <<config, order, idx, fs0, ui>>

NextAgain == Next \/ RunAgain

SpecAgain == InitAgain /\ [][NextAgain]_vars

(***************************************************************************)
(* The run button, the shortcut and the worker threads.                    *)
(***************************************************************************)
InitWorkers == InitUI

\* _handle_run from its first line to its last: the entries are validated, the
\* confirmation is asked, the button is set running and a thread is started on
\* _run_merge with the MergeConfig just built
HandleRunStartsWorker ==
  /\ Len(ui.workers) + ui.after < MaxWorkers
  /\ \E root_text \in {<<>>, RootText}, suffix_text \in {<<>>, nSfx},
        dry_run \in BOOLEAN, conflict_mode \in {"rename"}, confirmed \in BOOLEAN :
       \E out \in {HandleRunOutcome(fs, root_text, suffix_text, dry_run,
                                    conflict_mode, confirmed)} :
         /\ call' = [op |-> "handle_run", args |-> <<root_text, suffix_text>>,
                     ret |-> out]
         /\ IF out = <<"started">>
              THEN /\ config' = MergeConfig(Strip(root_text), Strip(suffix_text),
                                            FALSE, dry_run, FALSE, conflict_mode)
                   /\ ui' = [ui EXCEPT !.button = "disabled",
                                       !.workers = Append(@, config')]
                   /\ Becomes(SetStatus(Ctx, <<"preparing">>))
              ELSE /\ UNCHANGED <<config, ui>>
                   /\ Becomes(Ctx)
  /\ UNCHANGED <<order, plan, idx, pc, fs0>>

\* a click on the Start Merge button: a disabled button runs no command
ClickRunButton ==
  /\ ui.button = "normal"
  /\ HandleRunStartsWorker

\* Control-r or Control-R anywhere in the application (bind_all)
KeyRun ==
  \E key \in {"r", "R"} : HandleRunStartsWorker

\* a worker thread runs _run_merge to its end, and its finally clause queues
\* _set_button_running(False) for the main loop
WorkerRuns ==
  /\ \E i \in DOMAIN ui.workers, timestamp \in TimeStamps :
       \E s1 \in {RunMerge(NewContext(fs, archives), ui.workers[i], order,
                           timestamp, TRUE)} :
         /\ Becomes(s1)
         /\ plan' = BuildPlan(fs, ui.workers[i].root_path, ui.workers[i].suffix,
                              ui.workers[i].ignore_case, order)
         /\ call' = [op |-> "run_merge", args |-> <<ui.workers[i].root_path>>,
                     ret |-> IF s1.err THEN Raised ELSE NoPath]
         /\ ui' = [ui EXCEPT
                     !.workers = SubSeq(@, 1, i - 1) \o SubSeq(@, i + 1, Len(@)),
                     !.after = @ + 1]
  /\ UNCHANGED <<config, order, idx, pc, fs0>>

\* the main loop runs a queued _set_button_running(False)
AfterSetButtonRunning ==
  /\ ui.after > 0
  /\ ui' = [ui EXCEPT !.button = "normal", !.after = @ - 1]
  /\ UNCHANGED <<fs, archives, config, order, stats, log, progress, status,
                 plan, idx, pc, fs0, pre, call>>

NextWorkers == ClickRunButton \/ KeyRun \/ WorkerRuns \/ AfterSetButtonRunning

SpecWorkers == InitWorkers /\ [][NextWorkers]_vars

(***************************************************************************)
(* move and _merge_directory called on their own.                          *)
(***************************************************************************)
\* ctx.move(src, dst, is_dir=...): every call site moves an item to a name that
\* is free in a directory outside the item
CallMove ==
  /\ pc = "start"
  /\ \E src \in DOMAIN fs \ {<<>>}, d \in AllDirs(fs) :
     \E name \in {BaseName(src), nY} :
       /\ ~IsPrefix(src, d)
       /\ ~Exists(fs, Join(d, name))
       /\ \E s1 \in {Move(Ctx, config, src, Join(d, name), IsDir(fs, src))} :
            /\ Becomes(s1)
            /\ call' = [op |-> "move",
                        args |-> <<src, Join(d, name), IsDir(fs, src)>>,
                        ret |-> IF s1.err THEN Raised ELSE NoPath]
  /\ pc' = "called"
  /\ UNCHANGED <<config, order, plan, idx, fs0, ui>>

\* _merge_directory(src_item, dst_item, name, dst_parent) as _merge_trees calls
\* it: for a directory of src, and the same name in dst
CallMergeDirectory ==
  /\ pc = "start"
  /\ \E src \in AllDirs(fs), dst \in AllDirs(fs) :
     \E name \in Entries(fs, src) :
       /\ src # dst
       /\ IsDir(fs, Join(src, name))
       /\ ~IsPrefix(Join(src, name), dst)
       /\ ~IsPrefix(Join(dst, name), src)
       /\ \E s1 \in {MergeDirectory(Ctx, config, order, Join(src, name),
                                    Join(dst, name), name, dst)} :
            /\ Becomes(s1)
            /\ call' = [op |-> "merge_directory",
                        args |-> <<Join(src, name), Join(dst, name)>>,
                        ret |-> IF s1.err THEN Raised ELSE NoPath]
  /\ pc' = "called"
  /\ UNCHANGED <<config, order, plan, idx, fs0, ui>>

NextMove == CallMove \/ CallMergeDirectory

SpecMove == InitCtx /\ [][NextMove]_vars

(***************************************************************************)
(* What the claims speak of.                                               *)
(***************************************************************************)
Planned == pc # "start"
Live == ~config.dry_run
\* the files of tree f
FilesOf(f) == {p \in DOMAIN f : f[p].kind = "file"}

Folded(name) == IF config.ignore_case THEN Lower(name) ELSE name

\* name ends with the configured suffix under the case rule
HasSuffix(name) ==
  /\ Len(name) >= Len(config.suffix)
  /\ SubSeq(Folded(name), Len(name) - Len(config.suffix) + 1, Len(name))
       = Folded(config.suffix)

\* directory d with the suffix stripped from its name
Stripped(d) ==
  Join(DirName(d), SubSeq(BaseName(d), 1, Len(BaseName(d)) - Len(config.suffix)))

\* the directories the plan is to list
Suffixed(f) ==
  {d \in DirsBelow(f) : HasSuffix(BaseName(d)) /\ Len(BaseName(d)) > Len(config.suffix)}

PlanIndex == 1..Len(plan)
Sources == {plan[i][1] : i \in PlanIndex}
Destinations == {plan[i][2] : i \in PlanIndex}

\* C1: the plan holds exactly one entry (d, d with the suffix stripped) for every
\* directory d below the root whose name ends with the suffix (case rule applied)
\* and is longer than it, and nothing else; source and destination of an entry
\* share their parent.
C1_PlanIsExactlyTheSuffixedDirs ==
  Planned =>
    /\ \A d \in Suffixed(fs0) :
         Cardinality({i \in PlanIndex : plan[i] = <<d, Stripped(d)>>}) = 1
    /\ \A i \in PlanIndex :
         /\ plan[i][1] \in Suffixed(fs0)
         /\ plan[i][2] = Stripped(plan[i][1])
         /\ DirName(plan[i][1]) = DirName(plan[i][2])
         /\ \A j \in PlanIndex : plan[j][1] = plan[i][1] => j = i

\* a plan with two entries, one of them found by the case rule only
C1_Witness ==
  /\ Planned
  /\ Len(plan) >= 2
  /\ config.ignore_case
  /\ \E i \in PlanIndex :
       SubSeq(BaseName(plan[i][1]), Len(BaseName(plan[i][1])) - Len(config.suffix) + 1,
              Len(BaseName(plan[i][1]))) # config.suffix

\* C2: a directory whose name is the suffix itself (case rule applied) is never
\* the source of a plan entry.
C2_ExactSuffixNeverPlanned ==
  Planned =>
    \A i \in PlanIndex : Folded(BaseName(plan[i][1])) # Folded(config.suffix)

\* a tree that holds a directory named as the suffix, inside a planned one
C2_Witness ==
  /\ Planned
  /\ plan # <<>>
  /\ \E d \in DirsBelow(fs0) :
       /\ Folded(BaseName(d)) = Folded(config.suffix)
       /\ BaseName(d) # config.suffix
       /\ \E e \in DirsBelow(fs0) : DirName(e) = d

\* C3: of two plan entries whose sources are ancestor and descendant, the
\* descendant's entry comes first.
C3_DescendantBeforeAncestor ==
  Planned =>
    \A i, j \in PlanIndex :
      IsAncestor(plan[i][1], plan[j][1]) => j < i

\* a plan with a suffixed directory nested in a suffixed directory
C3_Witness ==
  /\ Planned
  /\ \E i, j \in PlanIndex : IsAncestor(plan[i][1], plan[j][1])

(***************************************************************************)
(* Dry run.                                                                *)
(***************************************************************************)
\* C4: with dry_run set, backup and execute leave the filesystem exactly as it
\* was, at every point of the run, in every conflict mode, with and without a
\* backup: the tree under the root and the archives beside it do not change.
C4_DryRunChangesNothing ==
  config.dry_run => fs = fs0 /\ archives = {}

\* a completed dry run with a backup that simulated a move, an overwrite and a
\* removal of a directory
C4_Witness ==
  /\ config.dry_run
  /\ config.create_backup
  /\ config.conflict_mode = "overwrite"
  /\ pc = "done"
  /\ stats.files_moved > 0
  /\ stats.name_conflicts > 0
  /\ \E i \in 1..Len(log) : log[i][1] = "dry_backup"
  /\ \E i \in 1..Len(log) : log[i][1] = "dry_move_file"

\* the context execute starts from on the tree f
FreshCtx(f) ==
  [fs |-> f, archives |-> {}, stats |-> ZeroStats, log |-> <<>>,
   progress |-> <<>>, status |-> <<>>, err |-> FALSE, ret |-> NoPath]

ExecuteCounters ==
  {"folders_merged", "folders_renamed", "files_moved", "items_skipped",
   "name_conflicts", "dirs_deleted"}

\* C5: the statistics of a completed dry run equal, counter for counter, the
\* statistics of a live execute of the same plan on the same tree that
\* completes.
C5_DryRunStatsAsLive ==
  (pc = "done" /\ config.dry_run) =>
    \A live \in {Execute(FreshCtx(fs0), [config EXCEPT !.dry_run = FALSE], order, plan)} :
      ~live.err => \A c \in ExecuteCounters : stats[c] = live.stats[c]

(***************************************************************************)
(* Skip mode.                                                              *)
(***************************************************************************)
\* the relative paths at which merging src into dst on tree f meets a collision:
\* both sides exist, they are not two directories, and every level above is a
\* directory on both sides
Collisions(f, src, dst) ==
  {r \in {SubSeq(p, Len(src) + 1, Len(p)) : p \in {q \in DOMAIN f : IsAncestor(src, q)}} :
     /\ Exists(f, dst \o r)
     /\ ~(IsDir(f, src \o r) /\ IsDir(f, dst \o r))
     /\ \A k \in 0..(Len(r) - 1) :
          IsDir(f, src \o SubSeq(r, 1, k)) /\ IsDir(f, dst \o SubSeq(r, 1, k))}

\* tree g holds everything tree f holds at and below path p, unchanged
SameBelow(f, g, p) ==
  \A q \in DOMAIN f : IsPrefix(p, q) => (q \in DOMAIN g /\ g[q] = f[q])

Skipped == stats.items_skipped - pre.stats.items_skipped
Conflicts == stats.name_conflicts - pre.stats.name_conflicts

\* C6: in Skip mode, the merge of one plan pair changes nothing that was in the
\* destination directory, leaves every colliding source item (file against file
\* and across types) in place, and adds exactly 1 to items_skipped and to
\* name_conflicts for each collision and nothing else; in the other modes
\* items_skipped stays 0.
C6_SkipKeepsBothSides ==
  /\ config.conflict_mode # "skip" => stats.items_skipped = 0
  /\ (call.op = "execute_pair" /\ config.conflict_mode = "skip") =>
       LET src == call.args[1]
           dst == call.args[2]
           hit == Collisions(pre.fs, src, dst)
       IN  /\ SameBelow(pre.fs, fs, dst)
           /\ \A r \in hit : SameBelow(pre.fs, fs, src \o r)
           /\ Skipped = Cardinality(hit)
           /\ Conflicts = Cardinality(hit)

\* a live merge in Skip mode that skipped a directory colliding with a file and
\* moved another item
C6_Witness ==
  /\ call.op = "execute_pair"
  /\ config.conflict_mode = "skip"
  /\ Live
  /\ Skipped = 1
  /\ \E r \in Collisions(pre.fs, call.args[1], call.args[2]) :
       IsDir(pre.fs, call.args[1] \o r) /\ ~IsDir(pre.fs, call.args[2] \o r)
  /\ fs # pre.fs

(***************************************************************************)
(* Rename mode.                                                            *)
(***************************************************************************)
RenameDone == pc = "done" /\ Live /\ config.conflict_mode = "rename"

\* path p lies in or is one of the sources of the plan
InSomeSource(p) == \E i \in PlanIndex : IsPrefix(plan[i][1], p)

OnePairNoCollision ==
  /\ Cardinality(Suffixed(fs0)) = 1
  /\ \A S \in Suffixed(fs0) :
       /\ IsDir(fs0, Stripped(S))
       /\ \A n \in Entries(fs0, S) : ~IsDir(fs0, Join(S, n))
       /\ Entries(fs0, S) \cap Entries(fs0, Stripped(S)) = {}

\* C8: a live run in Rename mode on a tree with one suffixed directory S of n
\* files and its base directory D, no name colliding, ends with the n files in D,
\* S removed, files_moved = n, folders_merged = 1 and folders_planned = 1.
C8_LiveRunMergesThePair ==
  (RenameDone /\ OnePairNoCollision) =>
    \A S \in Suffixed(fs0) :
      /\ \A n \in Entries(fs0, S) :
           /\ Exists(fs, Join(Stripped(S), n))
           /\ fs[Join(Stripped(S), n)] = fs0[Join(S, n)]
      /\ ~Exists(fs, S)
      /\ stats.files_moved = Cardinality(Entries(fs0, S))
      /\ stats.folders_merged = 1
      /\ stats.folders_planned = 1

\* such a run with two files in S and a file of another name in D
C8_Witness ==
  /\ RenameDone
  /\ OnePairNoCollision
  /\ stats.files_moved = 2
  /\ \E S \in Suffixed(fs0) : Entries(fs0, Stripped(S)) # {}

(***************************************************************************)
(* Cross-type collisions and unique names.                                 *)
(***************************************************************************)
Digits == <<"1", "2", "3", "4", "5", "6", "7", "8", "9">>

\* "name (k)", the counter before the extension of x.t
CountedName(name, k) ==
  IF name = nXt THEN <<"x", " ", "(", Digits[k], ")", ".", "t">>
  ELSE name \o <<" ", "(", Digits[k], ")">>

\* the first counter whose name is free in directory d of tree f
FirstFree(f, d, name) ==
  CHOOSE k \in 1..9 :
    /\ ~Exists(f, Join(d, CountedName(name, k)))
    /\ \A j \in 1..(k - 1) : Exists(f, Join(d, CountedName(name, j)))

\* tree g holds at path q what tree f held at and below path p
MovedTo(f, g, p, q) ==
  \A r \in DOMAIN f :
    IsPrefix(p, r) =>
      /\ r \notin DOMAIN g
      /\ q \o SubSeq(r, Len(p) + 1, Len(r)) \in DOMAIN g
      /\ g[q \o SubSeq(r, Len(p) + 1, Len(r))] = f[r]

\* C9: on a cross-type collision under Rename or Overwrite the destination item
\* is left as it was, name_conflicts grows by 1 and items_skipped by 0, and in a
\* live run the source item is moved to the first free "name (n)" of the
\* destination's directory, which did not exist before.
C9_TypeConflictRenamesTheSource ==
  (call.op = "handle_type_conflict" /\ config.conflict_mode # "skip") =>
    LET src_item == call.args[1]
        dst_item == call.args[2]
        name == BaseName(dst_item)
        new_path == Join(DirName(dst_item), CountedName(name, FirstFree(pre.fs, DirName(dst_item), name)))
    IN  /\ SameBelow(pre.fs, fs, dst_item)
        /\ Conflicts = 1
        /\ Skipped = 0
        /\ Live => /\ ~Exists(pre.fs, new_path)
                   /\ MovedTo(pre.fs, fs, src_item, new_path)
                   /\ stats.files_moved - pre.stats.files_moved =
                        IF call.args[3] THEN 0 ELSE 1

\* a live call under Overwrite for a file that met a directory holding a file,
\* and one for a directory that met a file
C9_Witness ==
  /\ call.op = "handle_type_conflict"
  /\ config.conflict_mode = "overwrite"
  /\ Live
  /\ ~call.args[3]
  /\ Entries(pre.fs, call.args[2]) # {}
  /\ Exists(fs, Join(DirName(call.args[2]), nX1))

nX3 == <<"x", " ", "(", "3", ")">>

\* C10 as claimed: on a directory that holds "name (1)" and "name (2)" (and not
\* "name (3)"), generate_unique_path returns "name (3)".
C10_Original ==
  call.op = "generate_unique_path" =>
    LET d == call.args[1]
        name == call.args[2]
    IN  (/\ Exists(fs, Join(d, CountedName(name, 1)))
         /\ Exists(fs, Join(d, CountedName(name, 2)))
         /\ ~Exists(fs, Join(d, CountedName(name, 3))))
          => call.ret = Join(d, CountedName(name, 3))

\* what generate_unique_path returns, in a state
UniquePathResult ==
  call.op = "generate_unique_path" =>
    LET d == call.args[1]
        name == call.args[2]
    IN  /\ ~Exists(fs, call.ret)
        /\ DirName(call.ret) = d
        /\ ~Exists(fs, Join(d, name)) => call.ret = Join(d, name)
        /\ Exists(fs, Join(d, name)) =>
             call.ret = Join(d, CountedName(name, FirstFree(fs, d, name)))
        /\ (/\ Exists(fs, Join(d, name))
            /\ Exists(fs, Join(d, CountedName(name, 1)))
            /\ Exists(fs, Join(d, CountedName(name, 2)))
            /\ ~Exists(fs, Join(d, CountedName(name, 3))))
             => call.ret = Join(d, CountedName(name, 3))

\* a call repeated on the unchanged directory returns what it returned before
UniquePathRepeats ==
  (/\ call.op = "generate_unique_path"
   /\ call'.op = "generate_unique_path"
   /\ call'.args = call.args) =>
     (fs' = fs /\ call'.ret = call.ret)

\* C10 as amended: on a directory that holds name, "name (1)" and "name (2)" (and
\* not "name (3)"), generate_unique_path returns "name (3)", every time it is
\* called; when name is free it returns name itself; otherwise the counter starts
\* at 1 and stands before the extension, and the path returned does not exist.
C10_UniquePathIsFirstFree == []UniquePathResult /\ [][UniquePathRepeats]_vars

\* the second of two calls for x on a directory that holds x, x (1) and x (2)
C10_Witness ==
  /\ call.op = "generate_unique_path"
  /\ idx = 2
  /\ pre.fs = fs0
  /\ call.ret = Join(call.args[1], nX3)

(***************************************************************************)
(* resolve_conflict.                                                       *)
(***************************************************************************)
\* the counters other than those of set cs are as they were before the call
OtherCountersKept(cs) ==
  \A c \in DOMAIN stats \ cs : stats[c] = pre.stats[c]

\* C11: resolve_conflict(dst_dir, dst_path) on a free dst_path returns it and
\* changes no counter and no file; on an existing one it adds exactly 1 to
\* name_conflicts in every mode, and Skip also adds 1 to items_skipped and
\* returns None, Overwrite returns dst_path and has removed the target in a live
\* run and nothing in a dry run, Rename returns the first free "name (n)" of
\* dst_dir, which differs from dst_path and does not exist, and removes nothing.
C11_ResolveConflictByMode ==
  call.op = "resolve_conflict" =>
    LET dst_dir == call.args[1]
        dst_path == call.args[2]
        mode == config.conflict_mode
    IN  IF ~Exists(pre.fs, dst_path)
          THEN call.ret = dst_path /\ stats = pre.stats /\ fs = pre.fs
          ELSE /\ Conflicts = 1
               /\ OtherCountersKept({"name_conflicts", "items_skipped"})
               /\ Skipped = IF mode = "skip" THEN 1 ELSE 0
               /\ mode = "skip" => call.ret = NoPath /\ fs = pre.fs
               /\ mode = "overwrite" =>
                    /\ call.ret = dst_path
                    /\ fs = IF Live
                              THEN [q \in DOMAIN pre.fs \ {dst_path} |-> pre.fs[q]]
                              ELSE pre.fs
               /\ mode = "rename" =>
                    /\ call.ret # dst_path
                    /\ call.ret = Join(dst_dir, CountedName(BaseName(dst_path),
                                     FirstFree(pre.fs, dst_dir, BaseName(dst_path))))
                    /\ ~Exists(fs, call.ret)
                    /\ fs = pre.fs

\* a live call under Overwrite that removed the file it met, after an earlier
\* call
C11_Witness ==
  /\ call.op = "resolve_conflict"
  /\ config.conflict_mode = "overwrite"
  /\ Live
  /\ idx = 2
  /\ Exists(pre.fs, call.args[2])
  /\ ~Exists(fs, call.args[2])
  /\ call.ret = call.args[2]

(***************************************************************************)
(* execute and a source that is gone.                                      *)
(***************************************************************************)
\* the last step was the iteration of execute for a pair whose source was gone
SourceWasGone == call.op = "execute_pair" /\ ~Exists(pre.fs, call.args[1])

\* C12: when execute reaches a pair whose source no longer exists it logs a
\* "not found" line, reports the progress of that index, raises nothing, changes
\* no counter and no file, and goes on with the next pair of the plan.
C12_MissingSourceIsSkipped ==
  SourceWasGone =>
    /\ pc = "exec"
    /\ plan[idx - 1] = call.args
    /\ fs = pre.fs
    /\ stats = pre.stats
    /\ log # <<>> /\ log[Len(log)] = <<"not_found", BaseName(call.args[1])>>
    /\ Len(progress) = idx - 1
    /\ progress[idx - 1] = <<idx - 1, Len(plan)>>
    /\ idx <= Len(plan) => ENABLED RunExecutePair

\* a live run that skipped a pair whose source was gone, went on to merge a
\* later pair and completed
C12_Witness ==
  /\ pc = "done"
  /\ Live
  /\ stats.files_moved > 0
  /\ \E i, j \in DOMAIN log :
       /\ i < j
       /\ log[i][1] = "not_found"
       /\ log[j][1] \in {"merging", "renaming"}

(***************************************************************************)
(* The progress execute reports.                                           *)
(***************************************************************************)
\* progress values are fractions <<numerator, denominator>>
Below(a, b) == a[1] * b[2] < b[1] * a[2]
IsOne(a) == a[1] = a[2]

\* the number of pairs execute is through with (processed or skipped)
PairsDone == IF pc = "start" \/ pc = "backup" THEN 0
             ELSE IF pc = "done" THEN Len(plan)
             ELSE idx - 1

\* the values execute has reported: _run_merge adds one more after execute
ExecuteProgress == SubSeq(progress, 1, PairsDone)

\* C13: during execute on a plan of N > 0 pairs, progress is reported exactly
\* once after each pair, processed or skipped as not found, with the value
\* index/N; the values are strictly increasing and lie in (0, 1], and the last
\* one, reported when execute is through with the plan, is 1.
C13_ProgressPerPair ==
  plan # <<>> =>
    /\ Len(progress) = PairsDone + (IF pc = "done" THEN 1 ELSE 0)
    /\ \A i \in 1..PairsDone :
         /\ progress[i] = <<i, Len(plan)>>
         /\ Below(<<0, 1>>, progress[i])
         /\ ~Below(<<1, 1>>, progress[i])
         /\ i > 1 => Below(progress[i - 1], progress[i])
    /\ PairsDone = Len(plan) => IsOne(progress[Len(plan)])

\* execute is through with a plan of two pairs or more, one of them skipped as
\* not found
C13_Witness ==
  /\ pc = "exec"
  /\ idx = Len(plan) + 1
  /\ Len(plan) >= 2
  /\ \E i \in DOMAIN log : log[i][1] = "not_found"
  /\ \E i \in DOMAIN log : log[i][1] = "merging"

(***************************************************************************)
(* The empty plan.                                                         *)
(***************************************************************************)
ExecutedEmptyPlan == call.op = "execute" /\ call.args = <<>>

\* C14 as claimed: execute on an empty plan changes no file and no counter,
\* raises nothing, and a progress value of 1 is reported to the sink.
C14_Original ==
  ExecutedEmptyPlan =>
    /\ fs = pre.fs
    /\ stats = pre.stats
    /\ call.ret # Raised
    /\ \E i \in DOMAIN progress : IsOne(progress[i])

\* C14 as amended: execute on an empty plan changes no file and no counter,
\* raises nothing and reports no progress value; a run whose plan is empty
\* returns before it calls execute, with no file and no counter changed, and it
\* is the run that reports the progress value 1.
C14_EmptyPlanIsNoOp ==
  /\ ExecutedEmptyPlan =>
       /\ fs = pre.fs
       /\ stats = pre.stats
       /\ call.ret # Raised
       /\ progress = <<>>
       /\ log = <<>>
  /\ (call.op = "build_plan" /\ plan = <<>>) =>
       /\ pc = "done"
       /\ fs = fs0
       /\ stats = ZeroStats
       /\ progress = << <<1, 1>> >>

\* execute was called on the empty plan beside a tree that holds files
C14_Witness ==
  /\ ExecutedEmptyPlan
  /\ FilesOf(fs) # {}
  /\ Live

(***************************************************************************)
(* create_archive.                                                         *)
(***************************************************************************)
BackupsCounted == stats.backups_created - pre.stats.backups_created

\* C15: create_archive(root, ctx) never raises; it adds exactly 1 to
\* backups_created if and only if it wrote an archive, and touches no other
\* counter and no file of the tree; it returns None with no counter changed when
\* root is not a directory and when archiving fails, the failure logged; in a
\* dry run it returns the would-be path with no counter changed and nothing
\* created; on success it returns the path of the archive written.
C15_CreateArchiveOutcomes ==
  call.op = "create_archive" =>
    LET root == call.args[1]
        archive == ArchiveOf(root, call.args[2])
        wrote == archives # pre.archives
    IN  /\ call.ret # Raised
        /\ fs = pre.fs
        /\ OtherCountersKept({"backups_created"})
        /\ BackupsCounted = IF wrote THEN 1 ELSE 0
        /\ archives \in {pre.archives, pre.archives \cup {archive}}
        /\ ~IsDir(fs, root) => call.ret = NoPath /\ ~wrote
        /\ (IsDir(fs, root) /\ ~Live) => call.ret = archive /\ ~wrote
        /\ (IsDir(fs, root) /\ Live) =>
             \/ call.ret = archive /\ wrote
             \/ /\ call.ret = NoPath
                /\ ~wrote
                /\ log # <<>> /\ log[Len(log)] = <<"backup_failed">>

\* a live call on a directory whose archiving failed
C15_Witness ==
  /\ call.op = "create_archive"
  /\ pc = "called"
  /\ Live
  /\ IsDir(fs, call.args[1])
  /\ call.ret = NoPath
  /\ stats.backups_created = 0

(***************************************************************************)
(* The backup of a run.                                                    *)
(***************************************************************************)
\* the run is past its backup step
PastBackup == pc \in {"exec", "done", "error"} /\ plan # <<>>

\* the last step was the backup step of a run that asked for a backup
BackupStep == call.op = "create_archive" /\ config.create_backup

RootArchives == {ArchiveOf(config.root_path, t) : t \in TimeStamps}

\* C16 as claimed: after a live run with create_backup the archive of the root
\* exists and backups_created is 1, the archive is there before the tree is
\* changed; in a dry run there is no archive, backups_created is 0 and the path
\* returned is that of the archive.
C16_Original ==
  /\ (pc = "done" /\ config.create_backup /\ Live) =>
       /\ archives \in {{a} : a \in RootArchives}
       /\ stats.backups_created = 1
  /\ (config.create_backup /\ Live /\ fs # fs0) => archives # {}
  /\ (config.create_backup /\ ~Live) =>
       /\ archives = {}
       /\ stats.backups_created = 0
       /\ BackupStep => call.ret \in RootArchives

\* C16 as amended: a run with create_backup whose plan is not empty calls
\* create_archive once, before execute changes the tree. In a live run, when
\* archiving succeeds the archive of the root exists from then on and
\* backups_created is 1; when archiving fails there is no archive,
\* backups_created stays 0 and the merge still runs. In a dry run there is no
\* archive, backups_created stays 0 and the path returned is that of the
\* archive. A run whose plan is empty, or without create_backup, creates no
\* archive.
C16_BackupBeforeMerge ==
  /\ stats.backups_created = Cardinality(archives)
  /\ archives = {} \/ archives \in {{a} : a \in RootArchives}
  /\ archives # {} => config.create_backup /\ Live /\ PastBackup
  /\ pc \in {"start", "backup"} => fs = fs0 /\ archives = {}
  /\ BackupStep =>
       /\ fs = fs0
       /\ pc = "exec" /\ idx = 1
       /\ Live => \/ call.ret \in RootArchives /\ archives = {call.ret}
                  \/ call.ret = NoPath /\ archives = {}
       /\ ~Live => call.ret \in RootArchives /\ archives = {}
  /\ (PastBackup /\ ~BackupStep) => archives = pre.archives

\* a live run with a backup that archived the root, changed the tree afterwards
\* and completed
C16_Witness ==
  /\ pc = "done"
  /\ config.create_backup
  /\ Live
  /\ archives # {}
  /\ stats.backups_created = 1
  /\ fs # fs0

(***************************************************************************)
(* The counters of OperationStats.                                         *)
(***************************************************************************)
\* C17: throughout a run (planning, backup, execute), every counter of
\* OperationStats is a non-negative integer and no step of the run takes it
\* below the value it had before the step, in dry-run and live mode and under
\* every conflict mode.
C17_CountersNeverDecrease ==
  \A c \in DOMAIN stats :
    /\ stats[c] \in Nat
    /\ pre.stats[c] \in Nat
    /\ stats[c] >= pre.stats[c]

\* the second pair of a plan was executed and moved files, after the first had
\* already raised counters
C17_Witness ==
  /\ call.op = "execute_pair"
  /\ idx = 3
  /\ pre.stats.folders_merged + pre.stats.folders_renamed > 0
  /\ stats.files_moved > pre.stats.files_moved
  /\ stats.folders_planned = 2

(***************************************************************************)
(* The log as a record of the mutations.                                   *)
(***************************************************************************)
\* the number of log lines of the kinds the operations log
Lines(kinds) == Cardinality({i \in DOMAIN log : log[i][1] \in kinds})

\* the log holds a line for every file moved, every directory removed and every
\* directory renamed so far (the line execute writes before rename_dir counts
\* for the renaming)
MutationsLogged ==
  /\ Lines({"dry_move_file"}) >= stats.files_moved
  /\ Lines({"dry_rmdir"}) >= stats.dirs_deleted
  /\ Lines({"dry_rename", "renaming"}) >= stats.folders_renamed

\* C18: at every point of a run, aborted or not, dry or live, the log holds a
\* line for each move, rename_dir and rmdir made so far.
C18_EveryMutationLogged == MutationsLogged

\* the same for dry runs alone
C18_DryRunLogged == ~Live => MutationsLogged

(***************************************************************************)
(* rmdir.                                                                  *)
(***************************************************************************)
\* path was an empty directory before the call
WasEmptyDir(path) == IsDir(pre.fs, path) /\ Entries(pre.fs, path) = {}

DirsDeleted == stats.dirs_deleted - pre.stats.dirs_deleted

\* what rmdir(path) did, by what path was
RmdirEmptyOnly ==
  LET path == call.args[1]
  IN  IF WasEmptyDir(path)
        THEN /\ call.ret = TRUE
             /\ DirsDeleted = 1
             /\ OtherCountersKept({"dirs_deleted"})
             /\ fs = IF Live THEN [q \in DOMAIN pre.fs \ {path} |-> pre.fs[q]]
                     ELSE pre.fs
        ELSE /\ call.ret = FALSE
             /\ stats = pre.stats
             /\ fs = pre.fs

\* C19: rmdir(path) returns true and adds 1 to dirs_deleted only for an empty
\* directory; for a path that is not empty or cannot be removed it returns
\* false, removes nothing and leaves dirs_deleted as it was; in dry-run as in
\* live mode.
C19_RmdirEmptyOnly == call.op = "rmdir" => RmdirEmptyOnly

\* the same for live calls alone
C19_LiveRmdirEmptyOnly == (call.op = "rmdir" /\ Live) => RmdirEmptyOnly

(***************************************************************************)
(* The validation of MergeConfig.                                          *)
(***************************************************************************)
\* C20: MergeConfig with an empty root_path or an empty suffix raises the
\* validation error, and builds nothing and touches no file; with both
\* non-empty it builds the object, with dry_run true and conflict_mode Rename
\* by default; the worker, and with it the planner and the executor, is only
\* ever started with a MergeConfig whose root_path and suffix are non-empty.
C20_ConfigIsValidated ==
  /\ call.op = "MergeConfig" =>
       /\ fs = pre.fs
       /\ config = NoConfig
       /\ IF call.args[1] = <<>> \/ call.args[2] = <<>>
            THEN call.ret = ValueError
            ELSE /\ call.ret # ValueError
                 /\ call.ret.root_path = PathNamed(call.args[1])
                 /\ call.ret.suffix = call.args[2]
                 /\ call.ret.dry_run = TRUE
                 /\ call.ret.conflict_mode = "rename"
                 /\ call.ret.ignore_case = FALSE
                 /\ call.ret.create_backup = FALSE
  /\ (call.op = "handle_run" /\ pc = "start") =>
       /\ Strip(call.args[1]) # <<>>
       /\ config.root_path = PathNamed(Strip(call.args[1]))
       /\ config.suffix = Strip(call.args[2])
  /\ pc = "idle" => config = NoConfig /\ fs = fs0 /\ plan = <<>>
  /\ pc # "idle" =>
       /\ config # NoConfig
       /\ config # ValueError
       /\ config.suffix # <<>>
       /\ IsDir(fs0, config.root_path)

\* a MergeConfig was asked for with a root_path and an empty suffix, beside a
\* tree that holds files
C20_Witness ==
  /\ call.op = "MergeConfig"
  /\ call.args[1] # <<>>
  /\ call.args[2] = <<>>
  /\ call.ret = ValueError
  /\ FilesOf(fs) # {}

(***************************************************************************)
(* A run repeated.                                                         *)
(***************************************************************************)
\* C21: after a complete live run, a second complete live run with the same
\* configuration leaves the tree exactly as the first run left it.
C21_SecondRunChangesNothing == pc = "done2" => fs = pre.fs

(***************************************************************************)
(* A run that an exception ends.                                           *)
(***************************************************************************)
\* the counters of the actions execute applies to the tree
AppliedCounters ==
  {"folders_merged", "folders_renamed", "files_moved", "name_conflicts",
   "dirs_deleted"}

\* the exception left execute at the pair it was raised in: no later pair was
\* processed and no progress was reported for the failing one
AbortedMidPlan == idx \in 1..Len(plan) /\ Len(progress) = idx - 1

\* C22: when an operation raises inside execute in a live run, no later pair is
\* processed and every counter counts only actions that were applied to the
\* tree before the failure; so a run that fails before it has changed anything
\* in the tree has counted nothing.
C22_PartialStatsHonest ==
  (pc = "error" /\ Live) =>
    /\ AbortedMidPlan
    /\ fs = fs0 => \A c \in AppliedCounters : stats[c] = 0

\* the part about the abort alone
C22_AbortsMidPlan == (pc = "error" /\ Live) => AbortedMidPlan

(***************************************************************************)
(* What a move counts.                                                     *)
(***************************************************************************)
FilesMoved == stats.files_moved - pre.stats.files_moved
FoldersMerged == stats.folders_merged - pre.stats.folders_merged

\* the last step was _merge_directory for a directory whose name was free in the
\* destination
MergedIntoFreeName ==
  /\ call.op = "merge_directory"
  /\ call.ret # Raised
  /\ ~Exists(pre.fs, call.args[2])

\* the last step was _merge_directory for a directory that met a file, outside
\* Skip mode
DirectoryMetFile ==
  /\ call.op = "merge_directory"
  /\ call.ret # Raised
  /\ Exists(pre.fs, call.args[2])
  /\ ~IsDir(pre.fs, call.args[2])
  /\ config.conflict_mode # "skip"

\* move adds 1 to files_moved for an item that is not a directory and 0 for a
\* directory, and touches no other counter
MoveCountsFilesOnly ==
  (call.op = "move" /\ call.ret # Raised) =>
    /\ FilesMoved = IF call.args[3] THEN 0 ELSE 1
    /\ OtherCountersKept({"files_moved"})
    /\ Live => MovedTo(pre.fs, fs, call.args[1], call.args[2])

\* a source directory whose name is free in the destination is moved in one
\* step, with 1 added to folders_merged and nothing to files_moved, however many
\* files it holds
WholeSubtreeCountsOnce ==
  MergedIntoFreeName =>
    /\ FoldersMerged = 1
    /\ FilesMoved = 0
    /\ OtherCountersKept({"folders_merged"})
    /\ Live => MovedTo(pre.fs, fs, call.args[1], call.args[2])

\* C23 as claimed: files_moved grows by 1 for each item moved that is not a
\* directory and by 0 for a directory; a source directory whose destination
\* entry is absent is moved in one step, adds 1 to folders_merged and nothing to
\* files_moved; and every directory move is counted in folders_merged by the
\* caller.
C23_Original ==
  /\ MoveCountsFilesOnly
  /\ WholeSubtreeCountsOnce
  /\ DirectoryMetFile => FoldersMerged >= 1

\* C23 as amended: as claimed for files and for a directory whose destination
\* entry is absent; a directory that meets a file is moved aside in one step
\* under a free "name (n)" and is counted in name_conflicts, not in
\* folders_merged, and not in files_moved.
C23_MoveCounters ==
  /\ MoveCountsFilesOnly
  /\ WholeSubtreeCountsOnce
  /\ DirectoryMetFile =>
       /\ FoldersMerged = 0
       /\ FilesMoved = 0
       /\ Conflicts = 1
       /\ OtherCountersKept({"name_conflicts"})
       /\ Live => /\ ~Exists(fs, call.args[1])
                  /\ \E k \in 1..3 :
                       MovedTo(pre.fs, fs, call.args[1],
                               Join(DirName(call.args[2]),
                                    CountedName(BaseName(call.args[2]), k)))

\* a live _merge_directory moved a directory that holds two files or more to a
\* name that was free
C23_Witness ==
  /\ MergedIntoFreeName
  /\ Live
  /\ Cardinality({p \in FilesOf(pre.fs) : IsAncestor(call.args[1], p)}) >= 2
  /\ fs # pre.fs

(***************************************************************************)
(* The order of the plan.                                                  *)
(***************************************************************************)
\* the depth of a path below the root
Depth(p) == Len(p)

\* name a comes before name b in the listing of their directory
ListedBefore(a, b) == IF order = "asc" THEN NameLess(a, b) ELSE NameLess(b, a)

\* C24 as claimed: of any two entries of the plan, the one whose source lies
\* deeper below the root never comes after the one whose source lies less deep.
C24_Original ==
  Planned =>
    \A i, j \in PlanIndex :
      Depth(plan[i][1]) > Depth(plan[j][1]) => i < j

\* C24 as amended: the plan follows the bottom-up walk. Of two entries, the
\* directory that holds the source of the earlier one is never above the
\* directory that holds the source of the later one; sources of one directory
\* come in the order of its listing; and of two sources on one branch the
\* deeper comes first. Sources on different branches come in any order of
\* depth.
C24_PlanFollowsBottomUpWalk ==
  Planned =>
    \A i, j \in PlanIndex :
      i < j =>
        /\ ~IsAncestor(DirName(plan[i][1]), DirName(plan[j][1]))
        /\ DirName(plan[i][1]) = DirName(plan[j][1]) =>
             ListedBefore(BaseName(plan[i][1]), BaseName(plan[j][1]))
        /\ (IsPrefix(plan[i][1], plan[j][1]) \/ IsPrefix(plan[j][1], plan[i][1])) =>
             Depth(plan[i][1]) > Depth(plan[j][1])

\* a plan with two sources on different branches, the deeper planned after the
\* less deep
C24_Witness ==
  /\ Planned
  /\ \E i, j \in PlanIndex :
       /\ i < j
       /\ Depth(plan[i][1]) < Depth(plan[j][1])
       /\ ~IsPrefix(plan[j][1], plan[i][1])

C26_SourcesSurviveEarlierPairs ==
  Live =>
    /\ call.op = "execute_pair" => IsDir(pre.fs, call.args[1])
    /\ Lines({"not_found"}) = 0

\* a live run reached a later entry whose source an earlier entry had merged
\* into, after the tree had changed
C26_Witness ==
  /\ Live
  /\ call.op = "execute_pair"
  /\ idx > 2
  /\ plan[idx - 1] = call.args
  /\ \E i \in 1..(idx - 2) : plan[i][2] = call.args[1]
  /\ pre.fs # fs0
  /\ IsDir(pre.fs, call.args[1])

(***************************************************************************)
(* Errors of a live run.                                                   *)
(***************************************************************************)
\* C27: in live mode, with nothing but the run changing the tree, execute
\* raises for no tree and no plan of build_plan, under any conflict mode, also
\* when the destination of a pair exists as a regular file.
C27_LiveExecuteNeverRaises ==
  (Live /\ call.op = "execute_pair") => pc # "error"

(***************************************************************************)
(* The worker threads.                                                     *)
(***************************************************************************)
\* C28: at most one merge worker runs at a time: whatever the user does with
\* the button, the shortcut and the confirmation, _handle_run starts no worker
\* thread while one started before has not finished.
C28_AtMostOneWorker ==
  Len(ui.workers) <= 1

====
